---- MODULE Spec2Model ----
(***************************************************************************)
(* Model of depmap_network_functions.py: the gene-gene connectivity       *)
(* queries built over INDRA statements, the entity hierarchy and the      *)
(* statement store.                                                        *)
(*                                                                         *)
(* A statement is a record [agents, type]: agents is the value of          *)
(* stmt.agent_list() and type the value of stmt.to_json()['type'].  An     *)
(* agent is a record [null, name]: null = TRUE is a None entry of the      *)
(* agent list (any attribute access on it raises AttributeError), and      *)
(* name is the value of ag.name, which is the value None when the agent    *)
(* carries no name.                                                        *)
(***************************************************************************)
EXTENDS Integers, Sequences, FiniteSets, TLC

VARIABLES hierarchy, session, op, args, pc, todo, queries, api_stmts,
          dbc_stmts, counter, caught, events, nested_stmt_dicts, pairs,
          connection, direct, result, error

\* the locals of direct_relation_from_api, of dbc_load_statements and of
\* nested_dict_gen
apiVars == <<queries, api_stmts>>
dbcVars == <<dbc_stmts, counter, caught, events>>
ndgVars == <<nested_stmt_dicts, pairs, connection>>

vars == <<hierarchy, session, op, args, pc, todo, apiVars, dbcVars, ndgVars,
          direct, result, error>>

(***************************************************************************)
(* Values                                                                  *)
(***************************************************************************)
\* Python's None as the value of ag.name
None == "None"

\* markers of "no value": nothing returned / nothing raised
NoResult == "<no result>"
NoError == "<no error>"

Ag(n) == [null |-> FALSE, name |-> n]
NoneAgent == [null |-> TRUE, name |-> None]
Stmt(t, ags) == [agents |-> ags, type |-> t]

\* gene ids used as arguments
Names == {"A", "B", "C"}

\* longest statement collection handed to an operation
MaxStmts == 3

\* longest id list handed to dbc_load_statements
MaxGenes == 3

StmtUniverse ==
    { Stmt("Phosphorylation", <<Ag("A"), Ag("B")>>),
      Stmt("Activation", <<Ag("B"), Ag("A")>>),
      Stmt("Complex", <<Ag("A"), Ag("B"), Ag("C")>>),
      Stmt("Activation", <<Ag("B"), NoneAgent, Ag("C")>>),
      Stmt("Phosphorylation", <<Ag("A"), Ag(None)>>),
      Stmt("", <<Ag("A"), Ag("C")>>),
      Stmt("Phosphorylation", <<Ag("A")>>) }

RECURSIVE SeqsUpTo(_, _)
SeqsUpTo(S, n) ==
    IF n = 0 THEN {<<>>}
    ELSE LET shorter == SeqsUpTo(S, n - 1)
         IN shorter \cup {Append(s, x) : s \in shorter, x \in S}

Collections == SeqsUpTo(StmtUniverse, MaxStmts)

HGNC(x) == <<"HGNC", x>>
FPLX(x) == <<"FPLX", x>>

\* contents of the entity hierarchy: node -> its immediate parents
NoParents == [u \in {} |-> {}]
SharedFamily == (HGNC("A") :> {FPLX("F1")}) @@ (HGNC("B") :> {FPLX("F1")})
SharedGrandparent ==
    (HGNC("A") :> {FPLX("F1")}) @@ (HGNC("B") :> {FPLX("F2")})
        @@ (FPLX("F1") :> {FPLX("F2")})
DisjointFamilies == (HGNC("A") :> {FPLX("F1")}) @@ (HGNC("C") :> {FPLX("F2")})

Hierarchies == {NoParents, SharedFamily, SharedGrandparent, DisjointFamilies}

Scopes == {"all", "immediate", "top"}
Namespaces == {"HGNC", "HGCN"}
OnLimitModes == {"sample", "truncate", "error", "persist"}

\* answers of capi.get_statements: a list of statements or a raised error
ApiLists ==
    { <<>>,
      <<Stmt("Phosphorylation", <<Ag("A"), Ag("B")>>)>>,
      <<Stmt("Activation", <<Ag("B"), Ag("A")>>)>> }
ApiErrors == {"IndraDBRestError", "ConnectionError"}
ApiOutcomes ==
    {[raised |-> NoError, value |-> l] : l \in ApiLists}
        \cup {[raised |-> e, value |-> <<>>] : e \in ApiErrors}

\* answers of dbc.get_statements_by_gene_role_type
DbLists ==
    { {},
      {Stmt("Phosphorylation", <<Ag("A"), Ag("B")>>)},
      {Stmt("Activation", <<Ag("B"), Ag("A")>>),
       Stmt("Complex", <<Ag("A"), Ag("B"), Ag("C")>>)} }
DbErrors == {"KeyboardInterrupt", "StatementError", "ValueError"}
DbOutcomes ==
    {[raised |-> NoError, value |-> s] : s \in DbLists}
        \cup {[raised |-> e, value |-> {}] : e \in DbErrors}

(***************************************************************************)
(* agent_name_set                                                          *)
(***************************************************************************)
\* ag.name raises AttributeError on a None agent and on nothing else
NameRaises(ag) == ag.null

agent_name_set(stmt) ==
    LET agent_list == stmt.agents
    IN IF \A i \in DOMAIN agent_list : ~NameRaises(agent_list[i])
       THEN \* try: ags.update(set(map(lambda ag: ag.name, ...)))
            {agent_list[i].name : i \in DOMAIN agent_list}
       ELSE \* except AttributeError: add ag.name for every ag that is not None
            {agent_list[i].name :
                i \in {j \in DOMAIN agent_list : ~agent_list[j].null}}

(***************************************************************************)
(* Hierarchy lookups                                                       *)
(***************************************************************************)
get_uri(ns, id) == <<ns, id>>

RECURSIVE AllParents(_, _, _)
AllParents(ho, frontier, seen) ==
    LET next == (UNION {ho[n] : n \in frontier \cap DOMAIN ho}) \ seen
    IN IF next = {} THEN seen ELSE AllParents(ho, next, seen \cup next)

get_parents(ho, uri, type) ==
    LET immediate == IF uri \in DOMAIN ho THEN ho[uri] ELSE {}
        all == AllParents(ho, immediate, immediate)
    IN CASE type = "immediate" -> immediate
         [] type = "top" -> {p \in all : p \notin DOMAIN ho \/ ho[p] = {}}
         [] OTHER -> all

find_parent(ho, ns, id, type) == get_parents(ho, get_uri(ns, id), type)

common_parent(ho, ns1, id1, ns2, id2, type) ==
    find_parent(ho, ns1, id1, type) \cap find_parent(ho, ns2, id2, type)

has_common_parent(ho, ns1, id1, ns2, id2, type) ==
    common_parent(ho, ns1, id1, ns2, id2, type) # {}

(***************************************************************************)
(* nested_dict_gen                                                         *)
(***************************************************************************)
\* list(a_set): the elements in some order
RECURSIVE SetToSeq(_)
SetToSeq(S) ==
    IF S = {} THEN <<>>
    ELSE LET x == CHOOSE y \in S : TRUE IN <<x>> \o SetToSeq(S \ {x})

\* itt.permutations(l, r=2): every ordered pair of two positions of l
RECURSIVE PermutationRows(_, _)
PermutationRows(l, i) ==
    IF i > Len(l) THEN <<>>
    ELSE [k \in 1..(Len(l) - 1) |-> <<l[i], l[IF k < i THEN k ELSE k + 1]>>]
            \o PermutationRows(l, i + 1)

\* variant: itt.combinations(l, r=2), each pair of positions in one order only
RECURSIVE CombinationRows(_, _)
CombinationRows(l, i) ==
    IF i > Len(l) THEN <<>>
    ELSE [k \in 1..(Len(l) - i) |-> <<l[i], l[i + k]>>]
            \o CombinationRows(l, i + 1)

combinations(l) == CombinationRows(l, 1)

permutations(l) == PermutationRows(l, 1)

\* Python truthiness of a string or a collection
Truthy(x) == Len(x) > 0

EmptyDict == [k \in {} |-> {}]

\* variant: the except KeyError branch assigns a fresh inner dict,
\* nested_stmt_dicts[agent] = {other_agent: {connection}}
AddConnection_fresh_inner(d, ho, agent, other_agent, conn) ==
    LET inner == IF agent \in DOMAIN d THEN d[agent] ELSE EmptyDict
        added ==
            IF other_agent \in DOMAIN inner
            THEN [inner EXCEPT ![other_agent] = @ \cup {conn}]
            ELSE (other_agent :> {conn})
        withParent ==
            IF has_common_parent(ho, "HGNC", agent, "HGNC", other_agent, "all")
            THEN [added EXCEPT ![other_agent] = @ \cup {"parent"}]
            ELSE added
    IN (agent :> withParent) @@ d

\* body of the loop over the permutations: the pair gets the connection and,
\* when its two ids have a common parent, 'parent'
AddConnection(d, ho, agent, other_agent, conn) ==
    LET inner == IF agent \in DOMAIN d THEN d[agent] ELSE EmptyDict
        added ==
            IF other_agent \in DOMAIN inner
            THEN [inner EXCEPT ![other_agent] = @ \cup {conn}]
            ELSE (other_agent :> {conn}) @@ inner
        withParent ==
            IF has_common_parent(ho, "HGNC", agent, "HGNC", other_agent, "all")
            THEN [added EXCEPT ![other_agent] = @ \cup {"parent"}]
            ELSE added
    IN (agent :> withParent) @@ d

(***************************************************************************)
(* Relation classifier: the parts that need no store query                *)
(***************************************************************************)
\* variant: a statement is kept when it names either id
RECURSIVE direct_relation_from_stmts_either(_, _, _)
direct_relation_from_stmts_either(id1, id2, stmts_in) ==
    IF stmts_in = <<>> THEN <<>>
    ELSE LET stms == Head(stmts_in)
             s_agents == agent_name_set(stms)
             rest == direct_relation_from_stmts_either(id1, id2,
                                                       Tail(stmts_in))
         IN IF {id1, id2} \cap s_agents # {} THEN <<stms>> \o rest ELSE rest

RECURSIVE direct_relation_from_stmts(_, _, _)
direct_relation_from_stmts(id1, id2, stmts_in) ==
    IF stmts_in = <<>> THEN <<>>
    ELSE LET stms == Head(stmts_in)
             s_agents == agent_name_set(stms)
             rest == direct_relation_from_stmts(id1, id2, Tail(stmts_in))
         IN IF {id1, id2} \subseteq s_agents THEN <<stms>> \o rest ELSE rest

\* direct_relation's test `if not long_stmts`: TRUE sends the call to the API
direct_relation_uses_api(long_stmts) == ~Truthy(long_stmts)

relation_type(indra_stmt) == indra_stmt.type

RECURSIVE relation_types(_)
relation_types(stmts) ==
    IF stmts = <<>> THEN <<>>
    ELSE <<relation_type(Head(stmts))>> \o relation_types(Tail(stmts))

\* the three callers of direct_relation, given the list it returned
has_direct_relation(stmts) == Truthy(stmts)

are_connected(ho, id1, id2, stmts) ==
    has_common_parent(ho, "HGCN", id1, "HGCN", id2, "all")
        \/ has_direct_relation(stmts)

\* variant: 'parent' is put in front of the labels
connection_types_parent_first(ho, id1, id2, stmts) ==
    LET ctypes == relation_types(stmts)
    IN IF has_common_parent(ho, "HGNC", id1, "HGNC", id2, "all")
       THEN <<"parent">> \o ctypes
       ELSE ctypes

connection_types(ho, id1, id2, stmts) ==
    LET ctypes == relation_types(stmts)
    IN IF has_common_parent(ho, "HGNC", id1, "HGNC", id2, "all")
       THEN ctypes \o <<"parent">>
       ELSE ctypes

(***************************************************************************)
(* State machine.  One call is in progress at a time (the module is        *)
(* single-threaded); hierarchy and session are the two process-wide        *)
(* objects, every other variable belongs to the call in progress.          *)
(*   pc        position of the call: "idle", "q1".."q4" (the four          *)
(*             capi.get_statements calls of direct_relation_from_api),     *)
(*             "fetch", "except", "reraise" (dbc_load_statements),         *)
(*             "loop", "pairs" (the two loops of nested_dict_gen),         *)
(*             "done" (returned), "raised" (an error reached the caller)   *)
(*   todo      the items the loop in progress has yet to visit             *)
(*   queries   the store queries issued by the call, with their answers    *)
(*   caught    the exception e bound by an except clause                   *)
(*   events    what dbc_load_statements did about a failure, in order:     *)
(*             the error a fetch raised, "rollback", "raise"; "return"     *)
(*   error     the error that reached the caller                           *)
(*   direct    the list direct_relation returned to its caller             *)
(***************************************************************************)
NoLocals ==
    /\ todo' = <<>>
    /\ queries' = <<>>
    /\ api_stmts' = <<>>
    /\ dbc_stmts' = {}
    /\ counter' = 0
    /\ caught' = NoError
    /\ events' = <<>>
    /\ nested_stmt_dicts' = EmptyDict
    /\ pairs' = <<>>
    /\ connection' = ""
    /\ direct' = <<>>
    /\ error' = NoError

Init ==
    /\ hierarchy \in Hierarchies
    /\ session = "idle"
    /\ op = "none"
    /\ args = EmptyDict
    /\ pc = "idle"
    /\ todo = <<>>
    /\ queries = <<>>
    /\ api_stmts = <<>>
    /\ dbc_stmts = {}
    /\ counter = 0
    /\ caught = NoError
    /\ events = <<>>
    /\ nested_stmt_dicts = EmptyDict
    /\ pairs = <<>>
    /\ connection = ""
    /\ direct = <<>>
    /\ result = NoResult
    /\ error = NoError

\* no call in progress
Ready == pc = "idle"

\* entry of a call
Enter(o, a) ==
    /\ op' = o
    /\ args' = a
    /\ UNCHANGED <<hierarchy, session, apiVars, dbcVars, ndgVars, error>>

\* a call that needs neither the store nor the API returns at once
Pure(o, a, value) ==
    /\ Enter(o, a)
    /\ pc' = "done"
    /\ result' = value
    /\ UNCHANGED <<todo, direct>>

Call_agent_name_set ==
    /\ Ready
    /\ \E st \in StmtUniverse :
        Pure("agent_name_set", [stmt |-> st], agent_name_set(st))

Call_find_parent ==
    /\ Ready
    /\ \E ns \in Namespaces, id \in Names, type \in Scopes :
        Pure("find_parent", [ns |-> ns, id |-> id, type |-> type],
             find_parent(hierarchy, ns, id, type))

Call_common_parent ==
    /\ Ready
    /\ \E ns1 \in Namespaces, ns2 \in Namespaces, id1 \in Names, id2 \in Names,
          type \in Scopes :
        Pure("common_parent",
             [ns1 |-> ns1, id1 |-> id1, ns2 |-> ns2, id2 |-> id2,
              type |-> type],
             common_parent(hierarchy, ns1, id1, ns2, id2, type))

Call_has_common_parent ==
    /\ Ready
    /\ \E ns1 \in Namespaces, ns2 \in Namespaces, id1 \in Names, id2 \in Names,
          type \in Scopes :
        Pure("has_common_parent",
             [ns1 |-> ns1, id1 |-> id1, ns2 |-> ns2, id2 |-> id2,
              type |-> type],
             has_common_parent(hierarchy, ns1, id1, ns2, id2, type))

Call_direct_relation_from_stmts ==
    /\ Ready
    /\ \E id1 \in Names, id2 \in Names, S \in Collections :
        Pure("direct_relation_from_stmts",
             [id1 |-> id1, id2 |-> id2, stmts_in |-> S],
             direct_relation_from_stmts(id1, id2, S))

Call_relation_types ==
    /\ Ready
    /\ \E S \in Collections :
        Pure("relation_types", [stmts |-> S], relation_types(S))

(***************************************************************************)
(* nested_dict_gen: the loop over the statements and, inside it, the loop  *)
(* over the permutations of one statement's agent names                    *)
(***************************************************************************)
\* nested_stmt_dicts = defaultdict(dict)
Call_nested_dict_gen ==
    /\ Ready
    /\ \E S \in Collections :
        /\ Enter("nested_dict_gen", [stmts |-> S])
        /\ todo' = S
        /\ pc' = "loop"
        /\ UNCHANGED <<direct, result>>

\* for st in stmts: the statement is skipped, or its pairs are to be visited
nested_dict_gen_stmt ==
    /\ pc = "loop"
    /\ todo # <<>>
    /\ LET st == Head(todo)
           agent_names == SetToSeq(agent_name_set(st))
       IN IF Len(agent_names) > 1 /\ Truthy(st.type)
          THEN /\ connection' = st.type
               /\ pairs' = permutations(agent_names)
               /\ pc' = "pairs"
          ELSE UNCHANGED <<connection, pairs, pc>>
    /\ todo' = Tail(todo)
    /\ UNCHANGED <<hierarchy, session, op, args, apiVars, dbcVars,
                   nested_stmt_dicts, direct, result, error>>

\* for agent, other_agent in itt.permutations(agent_names, r=2)
nested_dict_gen_pair ==
    /\ pc = "pairs"
    /\ nested_stmt_dicts' =
            AddConnection(nested_stmt_dicts, hierarchy, Head(pairs)[1],
                          Head(pairs)[2], connection)
    /\ pairs' = Tail(pairs)
    /\ pc' = IF Tail(pairs) = <<>> THEN "loop" ELSE "pairs"
    /\ UNCHANGED <<hierarchy, session, op, args, todo, apiVars, dbcVars,
                   connection, direct, result, error>>

\* the loop is over: the statement count is logged, the dict returned
nested_dict_gen_return ==
    /\ pc = "loop"
    /\ todo = <<>>
    /\ pc' = "done"
    /\ result' = nested_stmt_dicts
    /\ UNCHANGED <<hierarchy, session, op, args, todo, apiVars, dbcVars,
                   ndgVars, direct, error>>

(***************************************************************************)
(* direct_relation and its callers                                         *)
(***************************************************************************)
\* what the caller of direct_relation makes of the list it got back
Finish(o, a, stmts) ==
    CASE o = "has_direct_relation" -> has_direct_relation(stmts)
      [] o = "are_connected" -> are_connected(hierarchy, a.id1, a.id2, stmts)
      [] o = "connection_types" ->
            connection_types(hierarchy, a.id1, a.id2, stmts)
      [] OTHER -> stmts

Call_direct_relation_from_api ==
    /\ Ready
    /\ \E id1 \in Names, id2 \in Names, on_limit \in OnLimitModes :
        /\ Enter("direct_relation_from_api",
                 [id1 |-> id1, id2 |-> id2, on_limit |-> on_limit])
        /\ pc' = "q1"
        /\ UNCHANGED <<todo, direct, result>>

\* direct_relation(id1, id2, long_stmts) on behalf of operation o.  A caller
\* that supplies no collection gets the default argument set().
DirectRelation(o, id1, id2, supplied, S) ==
    LET long_stmts == IF supplied THEN S ELSE <<>>
        a == [id1 |-> id1, id2 |-> id2, supplied |-> supplied,
              long_stmts |-> long_stmts, on_limit |-> "sample"]
    IN /\ Enter(o, a)
       /\ UNCHANGED todo
       /\ IF direct_relation_uses_api(long_stmts)
          THEN /\ pc' = "q1"
               /\ UNCHANGED <<direct, result>>
          ELSE /\ pc' = "done"
               /\ direct' = direct_relation_from_stmts(id1, id2, long_stmts)
               /\ result' = Finish(o, a, direct')

\* the collections a caller can pass; none when it passes nothing
Supplied(supplied) == IF supplied THEN Collections ELSE {<<>>}

Call_direct_relation ==
    /\ Ready
    /\ \E id1 \in Names, id2 \in Names, supplied \in BOOLEAN :
         \E S \in Supplied(supplied) :
            DirectRelation("direct_relation", id1, id2, supplied, S)

Call_has_direct_relation ==
    /\ Ready
    /\ \E id1 \in Names, id2 \in Names, supplied \in BOOLEAN :
         \E S \in Supplied(supplied) :
            DirectRelation("has_direct_relation", id1, id2, supplied, S)

\* `or` evaluates has_direct_relation only when has_common_parent is false
Call_are_connected ==
    /\ Ready
    /\ \E id1 \in Names, id2 \in Names, supplied \in BOOLEAN :
         \E S \in Supplied(supplied) :
            IF has_common_parent(hierarchy, "HGCN", id1, "HGCN", id2, "all")
            THEN Pure("are_connected",
                      [id1 |-> id1, id2 |-> id2, supplied |-> supplied,
                       long_stmts |-> IF supplied THEN S ELSE <<>>,
                       on_limit |-> "sample"],
                      TRUE)
            ELSE DirectRelation("are_connected", id1, id2, supplied, S)

Call_connection_types ==
    /\ Ready
    /\ \E id1 \in Names, id2 \in Names, supplied \in BOOLEAN :
         \E S \in Supplied(supplied) :
            DirectRelation("connection_types", id1, id2, supplied, S)

(***************************************************************************)
(* direct_relation_from_api: the four store queries                        *)
(***************************************************************************)
\* id + '@TEXT'
TextId(id) == id \o "@TEXT"

\* variant: a bare `except Exception`
ExceptClause_any(e) == TRUE

\* the errors the `except IndraDBRestError` clause catches
ExceptClause(e) == e = "IndraDBRestError"

Issue(subject, object, out) ==
    queries' = Append(queries,
                      [subject |-> subject, object |-> object,
                       on_limit |-> args.on_limit,
                       raised |-> out.raised, value |-> out.value])

\* `return stmts`, and the caller's use of the returned list
Return(stmts) ==
    /\ pc' = "done"
    /\ direct' = stmts
    /\ result' = Finish(op, args, stmts)
    /\ UNCHANGED error

\* an error leaves the call and every caller above it
Propagate(e) ==
    /\ pc' = "raised"
    /\ error' = e
    /\ UNCHANGED <<direct, result>>

ApiFrame == <<hierarchy, session, op, args, todo, dbcVars, ndgVars>>

\* stmts = capi.get_statements(subject=id1, object=id2, ...)
Query1 ==
    /\ pc = "q1"
    /\ \E out \in ApiOutcomes :
        /\ Issue(args.id1, args.id2, out)
        /\ IF out.raised = NoError
           THEN /\ api_stmts' = out.value
                /\ pc' = "q2"
                /\ UNCHANGED <<direct, result, error>>
           ELSE IF ExceptClause(out.raised)
           THEN /\ pc' = "q3"
                /\ UNCHANGED <<api_stmts, direct, result, error>>
           ELSE /\ Propagate(out.raised)
                /\ UNCHANGED api_stmts
    /\ UNCHANGED ApiFrame

\* stmts + capi.get_statements(subject=id2, object=id1, ...): the sum is an
\* expression statement, stmts keeps its value
Query2 ==
    /\ pc = "q2"
    /\ \E out \in ApiOutcomes :
        /\ Issue(args.id2, args.id1, out)
        /\ UNCHANGED api_stmts
        /\ IF out.raised = NoError
           THEN Return(api_stmts)
           ELSE IF ExceptClause(out.raised)
           THEN /\ pc' = "q3"
                /\ UNCHANGED <<direct, result, error>>
           ELSE Propagate(out.raised)
    /\ UNCHANGED ApiFrame

\* stmts = capi.get_statements(subject=id1 + '@TEXT', object=id2 + '@TEXT', ...)
Query3 ==
    /\ pc = "q3"
    /\ \E out \in ApiOutcomes :
        /\ Issue(TextId(args.id1), TextId(args.id2), out)
        /\ IF out.raised = NoError
           THEN /\ api_stmts' = out.value
                /\ pc' = "q4"
                /\ UNCHANGED <<direct, result, error>>
           ELSE /\ Propagate(out.raised)
                /\ UNCHANGED api_stmts
    /\ UNCHANGED ApiFrame

\* stmts + capi.get_statements(subject=id2 + '@TEXT', object=id1 + '@TEXT', ...)
Query4 ==
    /\ pc = "q4"
    /\ \E out \in ApiOutcomes :
        /\ Issue(TextId(args.id2), TextId(args.id1), out)
        /\ UNCHANGED api_stmts
        /\ IF out.raised = NoError
           THEN Return(api_stmts)
           ELSE Propagate(out.raised)
    /\ UNCHANGED ApiFrame

(***************************************************************************)
(* dbc_load_statements                                                     *)
(***************************************************************************)
\* variant: the except KeyboardInterrupt clause is missing
Catches_statement_error_only(e) == e = "StatementError"

\* the errors the two except clauses catch
Catches(e) == e \in {"KeyboardInterrupt", "StatementError"}

\* stmts = set(); counter = 0; an empty id list returns at once
Call_dbc_load_statements ==
    /\ Ready
    /\ \E hgnc_ids \in SeqsUpTo(Names, MaxGenes) :
        /\ op' = "dbc_load_statements"
        /\ args' = [hgnc_ids |-> hgnc_ids]
        /\ todo' = hgnc_ids
        /\ dbc_stmts' = {}
        /\ counter' = 0
        /\ caught' = NoError
        /\ IF hgnc_ids = <<>>
           THEN /\ pc' = "done"
                /\ result' = {}
                /\ events' = <<"return">>
           ELSE /\ pc' = "fetch"
                /\ events' = <<>>
                /\ UNCHANGED result
        /\ UNCHANGED <<hierarchy, session, apiVars, ndgVars, direct, error>>

\* one turn of the loop: stmts.update(dbc.get_statements_by_gene_role_type(
\* agent_id=hgnc_id, ...)); counter += 1.  The progress line is logged every
\* max(10, ...) turns, which an id list this short never reaches.
Fetch ==
    /\ pc = "fetch"
    /\ \E out \in DbOutcomes :
        /\ session' = "active"
        /\ IF out.raised = NoError
           THEN /\ dbc_stmts' = dbc_stmts \cup out.value
                /\ counter' = counter + 1
                /\ todo' = Tail(todo)
                /\ UNCHANGED <<caught, error>>
                /\ IF Tail(todo) = <<>>
                   THEN /\ pc' = "done"
                        /\ result' = dbc_stmts'
                        /\ events' = Append(events, "return")
                   ELSE /\ pc' = "fetch"
                        /\ UNCHANGED <<result, events>>
           ELSE /\ UNCHANGED <<dbc_stmts, counter, todo, result>>
                /\ IF Catches(out.raised)
                   THEN /\ pc' = "except"
                        /\ caught' = out.raised
                        /\ events' = Append(events, out.raised)
                        /\ UNCHANGED error
                   ELSE /\ pc' = "raised"
                        /\ error' = out.raised
                        /\ events' = <<out.raised, "raise">>
                        /\ UNCHANGED caught
    /\ UNCHANGED <<hierarchy, op, args, apiVars, ndgVars, direct>>

\* db_prim.session.rollback()
Rollback ==
    /\ pc = "except"
    /\ session' = "rolled_back"
    /\ events' = Append(events, "rollback")
    /\ pc' = "reraise"
    /\ UNCHANGED <<hierarchy, op, args, todo, apiVars, dbc_stmts, counter,
                   caught, ndgVars, direct, result, error>>

\* raise e
Reraise ==
    /\ pc = "reraise"
    /\ pc' = "raised"
    /\ error' = caught
    /\ events' = Append(events, "raise")
    /\ UNCHANGED <<hierarchy, session, op, args, todo, apiVars, dbc_stmts,
                   counter, caught, ndgVars, direct, result>>

\* the caller has taken the result or the error; the call's locals are gone
Leave ==
    /\ pc \in {"done", "raised"}
    /\ pc' = "idle"
    /\ op' = "none"
    /\ args' = EmptyDict
    /\ result' = NoResult
    /\ NoLocals
    /\ UNCHANGED <<hierarchy, session>>

Next ==
    \/ Call_agent_name_set
    \/ Call_find_parent
    \/ Call_common_parent
    \/ Call_has_common_parent
    \/ Call_direct_relation_from_stmts
    \/ Call_relation_types
    \/ Call_nested_dict_gen
    \/ nested_dict_gen_stmt
    \/ nested_dict_gen_pair
    \/ nested_dict_gen_return
    \/ Call_direct_relation_from_api
    \/ Call_direct_relation
    \/ Call_has_direct_relation
    \/ Call_are_connected
    \/ Call_connection_types
    \/ Query1
    \/ Query2
    \/ Query3
    \/ Query4
    \/ Call_dbc_load_statements
    \/ Fetch
    \/ Rollback
    \/ Reraise
    \/ Leave

Spec == Init /\ [][Next]_vars

(***************************************************************************)
(* Properties                                                              *)
(***************************************************************************)
Returned(o) == op = o /\ pc = "done"

\* the keys an index can have: the gene ids and the value None
Keys == Names \cup {None}

HasEntry(d, a, b) == a \in DOMAIN d /\ b \in DOMAIN d[a]
Entry(d, a, b) == IF HasEntry(d, a, b) THEN d[a][b] ELSE {}

\* a statement's actual names
Named(st) == agent_name_set(st) \ {None}

IsText(q) == \E n \in Names : q.subject = TextId(n)

InApi == pc \in {"q1", "q2", "q3", "q4"}

\* C1: direct_relation_from_api returns the concatenation of both pair
\* queries: every statement either of the two queries of the path taken (the
\* plain pair, or the '@TEXT' pair on the fallback path) returned is in the
\* returned list.
C1_ReturnsBothQueries ==
    Returned("direct_relation_from_api") =>
        \A i \in {Len(queries) - 1, Len(queries)} :
            \A j \in DOMAIN queries[i].value :
                \E k \in DOMAIN result : result[k] = queries[i].value[j]

\* C2: direct_relation scans the supplied collection whenever one is
\* supplied, an empty one included: no store query is issued and the result
\* is the scan of that collection.
C2_SuppliedCollectionIsScanned ==
    (op = "direct_relation" /\ args.supplied) =>
        /\ queries = <<>>
        /\ pc = "done"
        /\ result = direct_relation_from_stmts(args.id1, args.id2,
                                               args.long_stmts)

\* C3 as stated: index[a][b] exists iff some statement ties a and b as
\* co-participants or a and b share a common ancestor (read for a # b).
C3_EntryIffStatementOrAncestor ==
    Returned("nested_dict_gen") =>
        \A a \in Names, b \in Names :
            a # b =>
            (HasEntry(result, a, b) <=>
                \/ \E i \in DOMAIN args.stmts :
                        {a, b} \subseteq agent_name_set(args.stmts[i])
                \/ has_common_parent(hierarchy, "HGNC", a, "HGNC", b, "all"))

\* C3 amended: index[a][b] exists iff a # b and some statement of the input
\* with a non-empty relation type has both a and b in its agent name set; a
\* common ancestor alone creates no entry.
C3_EntryIffTypedStatement ==
    Returned("nested_dict_gen") =>
        \A a \in Keys, b \in Keys :
            HasEntry(result, a, b) <=>
                /\ a # b
                /\ \E i \in DOMAIN args.stmts :
                        /\ Truthy(args.stmts[i].type)
                        /\ {a, b} \subseteq agent_name_set(args.stmts[i])

\* a pair with a common ancestor and no statement has no entry, next to a
\* pair that has one
C3_Witness ==
    /\ Returned("nested_dict_gen")
    /\ \E a \in Names, b \in Names :
        /\ a # b
        /\ has_common_parent(hierarchy, "HGNC", a, "HGNC", b, "all")
        /\ ~HasEntry(result, a, b)
    /\ \E a \in Names, b \in Names : HasEntry(result, a, b)

\* C4: the index is symmetric in content: every statement with two or more
\* distinct named participants and a non-empty relation type has its label
\* in index[a][b] and index[b][a] for every pair of its participants, and
\* for all a, b every label ('parent' included) is in index[a][b] iff it is
\* in index[b][a].
C4_IndexSymmetric ==
    Returned("nested_dict_gen") =>
        /\ \A i \in DOMAIN args.stmts :
            LET st == args.stmts[i]
            IN (Cardinality(Named(st)) >= 2 /\ Truthy(st.type)) =>
                \A a \in Named(st), b \in Named(st) :
                    a # b =>
                        /\ st.type \in Entry(result, a, b)
                        /\ st.type \in Entry(result, b, a)
        /\ \A a \in Keys, b \in Keys :
            /\ HasEntry(result, a, b) <=> HasEntry(result, b, a)
            /\ Entry(result, a, b) = Entry(result, b, a)

\* an index with a statement label and 'parent' on one pair, built from a
\* statement of three participants
C4_Witness ==
    /\ Returned("nested_dict_gen")
    /\ \E i \in DOMAIN args.stmts : Cardinality(Named(args.stmts[i])) = 3
    /\ \E a \in Names, b \in Names :
        /\ "parent" \in Entry(result, a, b)
        /\ Cardinality(Entry(result, b, a)) >= 3

\* C5: when a fetch of dbc_load_statements fails with a StatementError or a
\* KeyboardInterrupt, at any turn of the loop, the session is rolled back
\* before the error reaches the caller, that same error reaches the caller,
\* and no statement set is returned.
C5_RollbackThenReraise ==
    (op = "dbc_load_statements" /\ events # <<>>
        /\ events[1] \in {"StatementError", "KeyboardInterrupt"}) =>
        /\ pc \in {"except", "reraise", "raised"}
        /\ result = NoResult
        /\ pc = "raised" =>
            /\ events = <<events[1], "rollback", "raise">>
            /\ session = "rolled_back"
            /\ error = events[1]
        /\ pc # "raised" => error = NoError

\* an interrupt in a later turn of the loop has reached the caller
C5_Witness ==
    /\ op = "dbc_load_statements"
    /\ pc = "raised"
    /\ error = "KeyboardInterrupt"
    /\ counter >= 1
    /\ dbc_stmts # {}

\* C6: a participant with a missing name is skipped: agent_name_set returns
\* actual names only, and nested_dict_gen creates no key and no entry for an
\* absent name.
C6_AbsentNameSkipped ==
    /\ Returned("agent_name_set") => None \notin result
    /\ Returned("nested_dict_gen") =>
        \A a \in DOMAIN result : a # None /\ None \notin DOMAIN result[a]

\* C7: direct_relation_from_stmts returns exactly the statements of S whose
\* agent name set includes {id1, id2}, whatever their order or role, each
\* once and in the scan order of S.
C7_ExactlyTheSupersets ==
    Returned("direct_relation_from_stmts") =>
        LET S == args.stmts_in
            sel == {i \in DOMAIN S :
                        /\ args.id1 \in agent_name_set(S[i])
                        /\ args.id2 \in agent_name_set(S[i])}
            nth(k) == CHOOSE i \in sel :
                        Cardinality({j \in sel : j < i}) = k - 1
        IN /\ Len(result) = Cardinality(sel)
           /\ \A k \in 1..Len(result) : result[k] = S[nth(k)]

\* two statements are returned and one is left out, for two different ids
\* that appear in the two roles
C7_Witness ==
    /\ Returned("direct_relation_from_stmts")
    /\ args.id1 # args.id2
    /\ Len(result) = 2
    /\ Len(args.stmts_in) = 3
    /\ result[1].agents[1].name # result[2].agents[1].name

\* C8: connection_types returns the relation-type labels of the direct
\* relations in the order direct_relation returned them, duplicates kept,
\* followed by exactly one 'parent' iff has_common_parent(id1, id2); its
\* length is the number of direct relations plus one if there is a common
\* parent.
C8_LabelsThenParent ==
    Returned("connection_types") =>
        LET hcp == has_common_parent(hierarchy, "HGNC", args.id1,
                                     "HGNC", args.id2, "all")
        IN /\ Len(result) = Len(direct) + (IF hcp THEN 1 ELSE 0)
           /\ \A i \in 1..Len(direct) : result[i] = direct[i].type
           /\ hcp => result[Len(result)] = "parent"

\* two direct relations of the same type and a common parent
C8_Witness ==
    /\ Returned("connection_types")
    /\ Len(direct) = 2
    /\ direct[1].type = direct[2].type
    /\ result = <<direct[1].type, direct[1].type, "parent">>

\* C9: are_connected is true iff connection_types is non-empty, on the same
\* hierarchy, ids and direct relations.
C9_AgreesWithConnectionTypes ==
    Returned("are_connected") =>
        (result <=>
            connection_types(hierarchy, args.id1, args.id2, direct) # <<>>)

\* C10: the '@TEXT' queries are the only retry of direct_relation_from_api:
\* both ids are suffixed, they are issued only after a plain query raised
\* IndraDBRestError and at most once (two queries) per call; an error of a
\* '@TEXT' query reaches the caller with no further query; a call issues at
\* most four queries and, while it has not ended, its next query is due, so
\* every call ends with a returned list or a propagated error.
C10_SingleFallback ==
    /\ Len(queries) <= 4
    /\ Cardinality({i \in DOMAIN queries : IsText(queries[i])}) <= 2
    /\ \A i \in DOMAIN queries :
        IsText(queries[i]) =>
            /\ \E n \in Names : queries[i].object = TextId(n)
            /\ \E j \in 1..(i - 1) :
                /\ ~IsText(queries[j])
                /\ queries[j].raised = "IndraDBRestError"
            /\ queries[i].raised # NoError =>
                /\ i = Len(queries)
                /\ pc = "raised"
                /\ error = queries[i].raised
    /\ queries # <<>> =>
        /\ pc \in {"q2", "q3", "q4", "done", "raised"}
        /\ pc = "raised" => error = queries[Len(queries)].raised
        /\ pc = "done" => queries[Len(queries)].raised = NoError
    /\ InApi => Len(queries) < 4 /\ ENABLED (Query1 \/ Query2 \/ Query3 \/ Query4)

\* four queries were issued and the last '@TEXT' query's error reached the
\* caller
C10_Witness ==
    /\ op = "direct_relation_from_api"
    /\ pc = "raised"
    /\ Len(queries) = 4
    /\ IsText(queries[4])
    /\ error = "IndraDBRestError"

====
